---- MODULE Spec2Model ----
(***************************************************************************)
(* A model of testfixtures.logcapture: the LogCapture handler, its         *)
(* install / uninstall protocol over the logging registry, the process-    *)
(* wide set of installed instances, the atexit leak warning, the           *)
(* log_capture decorator and the check / check_present matchers.           *)
(*                                                                         *)
(* Handler lists are modelled by value.  In Python install() keeps a       *)
(* reference to the logger's list and gives the logger a fresh list, so a  *)
(* list saved by an installed LogCapture is never the list a logger        *)
(* currently holds, and in-place changes (addHandler) cannot reach it.     *)
(***************************************************************************)
EXTENDS Integers, Sequences, FiniteSets, TLC

\* ------------------------------------------------------------------ bounds
MaxLogs == 2
MaxLen == 4
MaxExpected == 3
MaxConfigure == 1

\* ------------------------------------------------------------- the universe
\* logging.getLogger(name): the root logger and one child of it.
Loggers == {"root", "a"}
\* LogCapture objects and LogCaptureForDecorator objects (made by log_capture).
Plain == {"s1"}
Decorated == {"d1"}
Sessions == Plain \cup Decorated
Classes == {"LogCapture", "LogCaptureForDecorator"}
\* A handler that is no LogCapture, added by other code.
OtherHandler == "h"
\* Python's None and a dictionary's missing key are the empty tuple, a present
\* value v the 1-tuple <<v>>.
None == <<>>
Some(v) == <<v>>
Value(o) == o[1]
\* The level a LogCapture is made with (1 unless given), the level log_capture
\* is given here (DEBUG), and the level records are logged at (DEBUG).
PlainLevels == {1}
DecoratedLevels == {10}
RecordLevels == {10}
\* The tuples of names a LogCapture is created with.
NameTuples == {<<"a">>, <<"a", "root">>, <<"a", "a">>}
PropagateValues == {None, Some(FALSE)}
DecoratedPropagateValues == {None}
\* self.attributes: a sequence of attribute names, or a callable.
AttributeNames(ns) == [callable |-> FALSE, names |-> ns, fn |-> ""]
DefaultAttributes == AttributeNames(<<"name", "levelname", "getMessage">>)
\* Python's None as an attribute value; the values are strings.
PyNone == "None"

ClassOf(s) == IF s \in Decorated THEN "LogCaptureForDecorator" ELSE "LogCapture"

VARIABLES
    loggers,        \* the logging registry: name -> level, handlers, disabled, propagate
    constructed,    \* the sessions whose __init__ has run
    names,          \* self.names
    level,          \* self.level
    propagate,      \* self.propagate
    attributes,     \* self.attributes
    old,            \* self.old
    records,        \* self.records
    installed,      \* the class attribute installed, which self.installed reads
    handed,         \* history: the records handed to emit since the buffer was last emptied
    instances,      \* LogCapture.instances
    atexit_setup,   \* the atexit_setup attribute of each class
    registered,     \* the callbacks handed to atexit.register, in order
    ucalls,         \* history: how often the last operation called uninstall() on each session
    raised,         \* the exception the last operation ended with, "" when none
    warnings,       \* the warnings issued by the atexit callbacks
    exited,         \* the process has run its exit callbacks
    calls,          \* for each decorated function: "idle" or "body"
    logCount,       \* the number of records logged so far
    cfgCount,       \* the number of changes other code has made to the loggers
    live,           \* history: installed and not uninstalled since, by the calls made
    lastOp,         \* history: the last operation, and the session it was called on
    pre,            \* history: the registry just before the install that ran last
    callPre,        \* history: the registry when the running decorated call began
    callStart,      \* history: logCount when the running decorated call began
    expected,       \* the rows a test is about to pass to check / check_present
    result          \* the outcome of the last check / check_present

vars == <<loggers, constructed, names, level, propagate, attributes, old, records,
          installed, handed,
          instances, atexit_setup, registered, ucalls, raised, warnings, exited, calls, logCount, cfgCount,
          live, lastOp, pre, callPre, callStart, expected, result>>

\* ----------------------------------------------------- the world as a record
\* The operations are functions from world to world, so that one operation
\* can call another (as __init__ calls install, and uninstall_all uninstall).
\* No exception, as the value of raised.
NotRaised == ""

\* No check made yet, as the value of result.
NoResult == [op |-> "none", s |-> "none", expected |-> <<>>, order_matters |-> TRUE,
             raised |-> NotRaised, report |-> <<>>]

World ==
    [loggers |-> loggers, constructed |-> constructed, names |-> names,
     level |-> level, propagate |-> propagate, attributes |-> attributes,
     old |-> old, records |-> records, installed |-> installed, handed |-> handed,
     instances |-> instances,
     atexit_setup |-> atexit_setup, registered |-> registered,
     warnings |-> warnings, ucalls |-> [s \in Sessions |-> 0], raised |-> NotRaised,
     result |-> result]

SetWorld(w) ==
    /\ loggers' = w.loggers
    /\ constructed' = w.constructed
    /\ names' = w.names
    /\ level' = w.level
    /\ propagate' = w.propagate
    /\ attributes' = w.attributes
    /\ old' = w.old
    /\ records' = w.records
    /\ installed' = w.installed
    /\ handed' = w.handed
    /\ instances' = w.instances
    /\ atexit_setup' = w.atexit_setup
    /\ registered' = w.registered
    /\ warnings' = w.warnings
    /\ ucalls' = w.ucalls
    /\ raised' = w.raised
    /\ result' = w.result

\* defaultdict(dict): four dictionaries keyed by logger name, all empty.
Missing == <<>>
EmptyDict == [n \in Loggers |-> Missing]
EmptyOld == [levels |-> EmptyDict, handlers |-> EmptyDict,
             disabled |-> EmptyDict, progagate |-> EmptyDict]

\* ------------------------------------------------------------ LogCapture
\* clear(): self.records = []
clear(w, s) == [w EXCEPT !.records[s] = <<>>, !.handed[s] = <<>>]

\* The class attribute atexit_setup as self.__class__ reads it: the subclass
\* inherits the base class's value until it has been assigned on the subclass.
ReadAtexitSetup(w, cls) ==
    IF w.atexit_setup[cls] # Missing THEN Value(w.atexit_setup[cls])
    ELSE Value(w.atexit_setup["LogCapture"])

\* install() adding its handler to the logger's handlers instead of replacing them.
InstallName_addsHandler(w, s, name) ==
    LET logger == w.loggers[name]
        o == w.old[s]
        saved == [levels    |-> [o.levels EXCEPT ![name] = Some(logger.level)],
                  handlers  |-> [o.handlers EXCEPT ![name] = Some(logger.handlers)],
                  disabled  |-> [o.disabled EXCEPT ![name] = Some(logger.disabled)],
                  progagate |-> [o.progagate EXCEPT ![name] = Some(logger.propagate)]]
        captured == [level     |-> w.level[s],
                     handlers  |-> Append(logger.handlers, s),
                     disabled  |-> FALSE,
                     propagate |-> IF w.propagate[s] # None THEN Value(w.propagate[s])
                                   ELSE logger.propagate]
    IN [w EXCEPT !.old[s] = saved, !.loggers[name] = captured]

\* The body of install()'s loop for one name.
InstallName(w, s, name) ==
    LET logger == w.loggers[name]
        o == w.old[s]
        saved == [levels    |-> [o.levels EXCEPT ![name] = Some(logger.level)],
                  handlers  |-> [o.handlers EXCEPT ![name] = Some(logger.handlers)],
                  disabled  |-> [o.disabled EXCEPT ![name] = Some(logger.disabled)],
                  progagate |-> [o.progagate EXCEPT ![name] = Some(logger.propagate)]]
        captured == [level     |-> w.level[s],
                     handlers  |-> <<s>>,
                     disabled  |-> FALSE,
                     propagate |-> IF w.propagate[s] # None THEN Value(w.propagate[s])
                                   ELSE logger.propagate]
    IN [w EXCEPT !.old[s] = saved, !.loggers[name] = captured]

RECURSIVE InstallNames(_, _, _)
InstallNames(w, s, ns) ==
    IF ns = <<>> THEN w
    ELSE InstallNames(InstallName(w, s, Head(ns)), s, Tail(ns))

\* self.instances.add(self)
AddInstance(w, s) == [w EXCEPT !.instances = @ \cup {s}]

\* if not self.__class__.atexit_setup: atexit.register(self.atexit); ... = True
RegisterAtexit(w, s) ==
    IF ~ReadAtexitSetup(w, ClassOf(s))
    THEN [w EXCEPT !.registered = Append(@, ClassOf(s)),
                   !.atexit_setup[ClassOf(s)] = Some(TRUE)]
    ELSE w

\* LogCapture.install
LogCapture_install(w, s) ==
    RegisterAtexit(AddInstance(InstallNames(w, s, w.names[s]), s), s)

\* LogCaptureForDecorator.install
LogCaptureForDecorator_install(w, s) == clear(LogCapture_install(w, s), s)

\* s.install(), by the class of s
install(w, s) ==
    IF s \in Decorated THEN LogCaptureForDecorator_install(w, s)
    ELSE LogCapture_install(w, s)

\* The body of uninstall()'s loop for one name; self.old['levels'][name] of a
\* name that was never saved raises KeyError, before the logger is touched.
UninstallName(w, s, name) ==
    LET o == w.old[s]
    IN IF o.levels[name] = Missing THEN [w EXCEPT !.raised = "KeyError"]
       ELSE [w EXCEPT !.loggers[name] =
               [level     |-> Value(o.levels[name]),
                handlers  |-> Value(o.handlers[name]),
                disabled  |-> Value(o.disabled[name]),
                propagate |-> Value(o.progagate[name])]]

RECURSIVE UninstallNames(_, _, _)
UninstallNames(w, s, ns) ==
    IF ns = <<>> \/ w.raised # NotRaised THEN w
    ELSE UninstallNames(UninstallName(w, s, Head(ns)), s, Tail(ns))

\* uninstall() forgetting to remove the session from the set.
RemoveInstance_forgotten(w, s) == w

\* self.instances.remove(self)
RemoveInstance(w, s) == [w EXCEPT !.instances = @ \ {s}]

\* uninstall() without the test for membership of the set.
uninstall_unguarded(w, s) ==
    LET w0 == [w EXCEPT !.ucalls[s] = @ + 1]
        w1 == UninstallNames(w0, s, w0.names[s])
    IN IF w1.raised # NotRaised THEN w1 ELSE RemoveInstance(w1, s)

\* LogCapture.uninstall (ucalls counts the call)
uninstall(w, s) ==
    LET w0 == [w EXCEPT !.ucalls[s] = @ + 1]
       w1 == UninstallNames(w0, s, w0.names[s])
    IN IF s \in w0.instances
       THEN IF w1.raised # NotRaised THEN w1 ELSE RemoveInstance(w1, s)
       ELSE w0

\* tuple(cls.instances): a set is iterated in an order the program does not
\* choose, every member once.
RECURSIVE Orders(_)
Orders(S) ==
    IF S = {} THEN {<<>>}
    ELSE UNION {{<<x>> \o o : o \in Orders(S \ {x})} : x \in S}

RECURSIVE UninstallEach(_, _)
UninstallEach(w, order) ==
    IF order = <<>> \/ w.raised # NotRaised THEN w
    ELSE UninstallEach(uninstall(w, Head(order)), Tail(order))

\* uninstall_all() iterating the set itself: the first removal ends the
\* iteration with RuntimeError (set changed size during iteration).
uninstall_all_live(w, order) ==
    IF order = <<>> THEN w
    ELSE LET w1 == uninstall(w, Head(order))
         IN IF Len(order) > 1 /\ w1.raised = NotRaised
            THEN [w1 EXCEPT !.raised = "RuntimeError"] ELSE w1

\* LogCapture.uninstall_all, iterating the snapshot in the given order
uninstall_all(w, order) == UninstallEach(w, order)

\* emit() keeping a record only when the buffer does not hold it yet.
emit_unless_held(w, s, record) ==
    [w EXCEPT !.records[s] = IF \E i \in 1..Len(@) : @[i] = record
                             THEN @ ELSE Append(@, record),
              !.handed[s] = Append(@, record)]

\* emit(record)
emit(w, s, record) ==
    [w EXCEPT !.records[s] = Append(@, record), !.handed[s] = Append(@, record)]

\* LogCapture.atexit, a class method: cls.instances is the one set of LogCapture.
\* The warning lists str(i.names) for each member i.
atexit(w, cls) ==
    IF w.instances # {}
    THEN [w EXCEPT !.warnings = Append(@, {<<i, w.names[i]>> : i \in w.instances})]
    ELSE w

\* ------------------------------------------------- the logging framework
\* Logger.getEffectiveLevel: the first level that is not NOTSET, up the parents.
EffectiveLevel(w, name) ==
    IF w.loggers[name].level # 0 \/ name = "root" THEN w.loggers[name].level
    ELSE w.loggers["root"].level

\* Logger.callHandlers: the logger, then its parent while propagate is set.
HandlerChain(w, name) ==
    IF name # "root" /\ w.loggers[name].propagate
    THEN w.loggers[name].handlers \o w.loggers["root"].handlers
    ELSE w.loggers[name].handlers

\* Each handler of the chain whose level admits the record handles it; a
\* LogCapture's handler level is its self.level.
RECURSIVE CallHandlers(_, _, _)
CallHandlers(w, hs, record) ==
    IF hs = <<>> THEN w
    ELSE LET h == Head(hs)
             w1 == IF h \in Sessions /\ record.levelno >= w.level[h]
                   THEN emit(w, h, record) ELSE w
         IN CallHandlers(w1, Tail(hs), record)

\* Logger.log(levelno, msg) on the logger called name
LoggerLog(w, name, record) ==
    IF record.levelno >= EffectiveLevel(w, name) /\ ~w.loggers[name].disabled
    THEN CallHandlers(w, HandlerChain(w, name), record)
    ELSE w

\* Logger.addHandler / removeHandler
AddHandler(hs, h) == IF \E i \in 1..Len(hs) : hs[i] = h THEN hs ELSE Append(hs, h)
RemoveHandler(hs, h) == SelectSeq(hs, LAMBDA x : x # h)

\* __init__
init(w, s, ns, inst, lv, pr, attrs) ==
    LET w1 == [w EXCEPT !.constructed = @ \cup {s},
                        !.names[s] = ns,
                        !.level[s] = lv,
                        !.propagate[s] = pr,
                        !.attributes[s] = attrs,
                        !.old[s] = EmptyOld,
                        !.records[s] = <<>>,
                        !.handed[s] = <<>>]
    IN IF inst THEN install(w1, s) ELSE w1

\* --------------------------------------------------------------- matching
\* logging.getLevelName
LevelName(levelno) ==
    CASE levelno = 10 -> "DEBUG"
      [] levelno = 30 -> "WARNING"
      [] OTHER -> "Level " \o ToString(levelno)

\* _actual_row without the call of a callable value: the method itself is the value.
GetAttr_uncalled(record, a) ==
    CASE a = "name" -> [callable |-> FALSE, value |-> record.name]
      [] a = "levelname" -> [callable |-> FALSE, value |-> LevelName(record.levelno)]
      [] a = "getMessage" -> [callable |-> TRUE, value |-> "<bound method getMessage>"]
      [] OTHER -> [callable |-> FALSE, value |-> PyNone]

\* getattr(record, a, None) for a LogRecord made by Logger.log(levelno, msg):
\* name and levelname are strings, getMessage is a method returning str(msg).
GetAttr(record, a) ==
    CASE a = "name" -> [callable |-> FALSE, value |-> record.name]
      [] a = "levelname" -> [callable |-> FALSE, value |-> LevelName(record.levelno)]
      [] a = "getMessage" -> [callable |-> TRUE, value |-> ToString(record.msg)]
      [] OTHER -> [callable |-> FALSE, value |-> PyNone]

\* _actual_row: the values of the attributes, a callable one being called
actual_row(attrs, record) ==
    [i \in 1..Len(attrs.names) |-> GetAttr(record, attrs.names[i]).value]

\* A callable given as attributes, applied to the record.
ApplyAttributes(attrs, record) ==
    CASE attrs.fn = "getMessage" -> ToString(record.msg)
      [] OTHER -> PyNone

\* The row actual() appends for one record.
ActualEntry(attrs, record) ==
    IF attrs.callable THEN ApplyAttributes(attrs, record)
    ELSE LET res == actual_row(attrs, record)
         IN IF Len(res) = 1 THEN res[1] ELSE res

\* actual()
actual(w, s) ==
    [i \in 1..Len(w.records[s]) |-> ActualEntry(w.attributes[s], w.records[s][i])]

\* testfixtures.comparison.compare(expected, actual=..., recursive=...): returns
\* when the two sequences are equal, raises AssertionError otherwise.
compare(exp, act) ==
    IF exp = act THEN [raised |-> NotRaised, report |-> <<>>]
    ELSE [raised |-> "AssertionError", report |-> <<exp, act>>]

\* list.index(entry, start), 0-based; -1 stands for ValueError.
Index(seq, entry, start) ==
    LET hits == {i \in start..(Len(seq) - 1) : seq[i + 1] = entry}
    IN IF hits = {} THEN -1 ELSE CHOOSE i \in hits : \A j \in hits : i <= j

Last(seq) == seq[Len(seq)]
Pop(seq) == SubSeq(seq, 1, Len(seq) - 1)

\* The for loop of the order-sensitive branch finding every entry from the
\* start of actual, whatever was matched before.
RECURSIVE OrderedLoop_fromStart(_, _, _, _)
OrderedLoop_fromStart(exp, act, matched_indices, matched) ==
    IF exp = <<>>
    THEN [broke |-> FALSE, matched_indices |-> matched_indices, matched |-> matched]
    ELSE LET index == Index(act, Head(exp), 0)
         IN IF index = -1
            THEN [broke |-> TRUE,
                  matched_indices |-> IF Len(matched_indices) > 1
                                      THEN Pop(matched_indices) ELSE matched_indices,
                  matched |-> IF Len(matched_indices) > 1 THEN Pop(matched) ELSE matched]
            ELSE OrderedLoop_fromStart(Tail(exp), act, Append(matched_indices, index + 1),
                                       Append(matched, Head(exp)))

\* The for loop of the order-sensitive branch keeping the last match when an
\* entry is not found.
RECURSIVE OrderedLoop_keepsLast(_, _, _, _)
OrderedLoop_keepsLast(exp, act, matched_indices, matched) ==
    IF exp = <<>>
    THEN [broke |-> FALSE, matched_indices |-> matched_indices, matched |-> matched]
    ELSE LET index == Index(act, Head(exp), Last(matched_indices))
         IN IF index = -1
            THEN [broke |-> TRUE, matched_indices |-> matched_indices, matched |-> matched]
            ELSE OrderedLoop_keepsLast(Tail(exp), act, Append(matched_indices, index + 1),
                                       Append(matched, Head(exp)))

\* The for loop of the order-sensitive branch looking for an entry only at
\* the cursor, not after it.
RECURSIVE OrderedLoop_atCursor(_, _, _, _)
OrderedLoop_atCursor(exp, act, matched_indices, matched) ==
    IF exp = <<>>
    THEN [broke |-> FALSE, matched_indices |-> matched_indices, matched |-> matched]
    ELSE LET cursor == Last(matched_indices)
             index == IF cursor < Len(act) /\ act[cursor + 1] = Head(exp)
                      THEN cursor ELSE -1
         IN IF index = -1
            THEN [broke |-> TRUE,
                  matched_indices |-> IF Len(matched_indices) > 1
                                      THEN Pop(matched_indices) ELSE matched_indices,
                  matched |-> IF Len(matched_indices) > 1 THEN Pop(matched) ELSE matched]
            ELSE OrderedLoop_atCursor(Tail(exp), act, Append(matched_indices, index + 1),
                                      Append(matched, Head(exp)))

\* The for loop of the order-sensitive branch: broke tells whether it ended
\* by break (else by exhausting expected, which returns).
RECURSIVE OrderedLoop(_, _, _, _)
OrderedLoop(exp, act, matched_indices, matched) ==
    IF exp = <<>>
    THEN [broke |-> FALSE, matched_indices |-> matched_indices, matched |-> matched]
    ELSE LET index == Index(act, Head(exp), Last(matched_indices))
         IN IF index = -1
            THEN [broke |-> TRUE,
                  matched_indices |-> IF Len(matched_indices) > 1
                                      THEN Pop(matched_indices) ELSE matched_indices,
                  matched |-> IF Len(matched_indices) > 1 THEN Pop(matched) ELSE matched]
            ELSE OrderedLoop(Tail(exp), act, Append(matched_indices, index + 1),
                             Append(matched, Head(exp)))

\* check_present, order_matters true
check_present_ordered(exp, act) ==
    LET r == OrderedLoop(exp, act, <<0>>, <<>>)
    IN IF ~r.broke THEN [raised |-> NotRaised, report |-> <<>>]
       ELSE compare(exp, r.matched \o SubSeq(act, Last(r.matched_indices) + 1, Len(act)))

\* list.pop(index), 0-based: the list without that element
PopAt(seq, index) == SubSeq(seq, 1, index) \o SubSeq(seq, index + 2, Len(seq))

\* The for loop of the order-insensitive branch ending at the first entry of
\* actual that is not expected.
RECURSIVE UnorderedLoop_stopsAtMiss(_, _, _, _)
UnorderedLoop_stopsAtMiss(act, pool, matched, unmatched) ==
    IF act = <<>> THEN [expected |-> pool, matched |-> matched, unmatched |-> unmatched]
    ELSE LET index == Index(pool, Head(act), 0)
         IN IF index = -1
            THEN [expected |-> pool, matched |-> matched,
                  unmatched |-> Append(unmatched, Head(act))]
            ELSE IF PopAt(pool, index) = <<>>
            THEN [expected |-> <<>>, matched |-> Append(matched, pool[index + 1]),
                  unmatched |-> unmatched]
            ELSE UnorderedLoop_stopsAtMiss(Tail(act), PopAt(pool, index),
                                           Append(matched, pool[index + 1]), unmatched)

\* The for loop of the order-insensitive branch, over the entries of actual.
RECURSIVE UnorderedLoop(_, _, _, _)
UnorderedLoop(act, pool, matched, unmatched) ==
    IF act = <<>> THEN [expected |-> pool, matched |-> matched, unmatched |-> unmatched]
    ELSE LET index == Index(pool, Head(act), 0)
             pool1 == IF index = -1 THEN pool ELSE PopAt(pool, index)
             matched1 == IF index = -1 THEN matched ELSE Append(matched, pool[index + 1])
             unmatched1 == IF index = -1 THEN Append(unmatched, Head(act)) ELSE unmatched
         IN IF pool1 = <<>>
            THEN [expected |-> pool1, matched |-> matched1, unmatched |-> unmatched1]
            ELSE UnorderedLoop(Tail(act), pool1, matched1, unmatched1)

\* The order-insensitive branch asking only whether each expected entry
\* occurs in actual, without consuming the entry of actual.
check_present_unordered_membership(exp, act) ==
    LET found == SelectSeq(exp, LAMBDA e : Index(act, e, 0) # -1)
        missing == SelectSeq(exp, LAMBDA e : Index(act, e, 0) = -1)
        others == SelectSeq(act, LAMBDA a : Index(exp, a, 0) = -1)
    IN IF missing = <<>> THEN [raised |-> NotRaised, report |-> <<>>]
       ELSE [raised |-> "AssertionError", report |-> <<found, missing, others>>]

\* check_present, order_matters false: expected = list(expected) is the pool
check_present_unordered(exp, act) ==
    LET r == UnorderedLoop(act, exp, <<>>, <<>>)
    IN IF r.expected # <<>>
       THEN [raised |-> "AssertionError",
             report |-> <<r.matched, r.expected, r.unmatched>>]
       ELSE [raised |-> NotRaised, report |-> <<>>]

\* The world after a check that ended as r tells.
Checked(w, op, s, exp, order_matters, r) ==
    [w EXCEPT !.raised = r.raised,
              !.result = [op |-> op, s |-> s, expected |-> exp,
                          order_matters |-> order_matters,
                          raised |-> r.raised, report |-> r.report]]

\* check_present(*expected, order_matters=...)
check_present(w, s, exp, order_matters) ==
    Checked(w, "check_present", s, exp, order_matters,
            IF order_matters THEN check_present_ordered(exp, actual(w, s))
            ELSE check_present_unordered(exp, actual(w, s)))

\* check() looking only for the presence of the expected entries.
check_as_present(w, s, exp) ==
    Checked(w, "check", s, exp, TRUE, check_present_ordered(exp, actual(w, s)))

\* check(*expected)
check(w, s, exp) == Checked(w, "check", s, exp, TRUE, compare(exp, actual(w, s)))

\* -------------------------------------------------------------- the actions
NoOp == <<"other", "none", "none">>
NoRegistry == <<>>
NoCalls == [d \in Decorated |-> NoRegistry]

Init ==
    /\ loggers = [n \in Loggers |->
                    [level |-> IF n = "root" THEN 30 ELSE 0,
                     handlers |-> <<>>, disabled |-> FALSE, propagate |-> TRUE]]
    /\ constructed = {}
    /\ names = [s \in Sessions |-> <<>>]
    /\ level = [s \in Sessions |-> 0]
    /\ propagate = [s \in Sessions |-> None]
    /\ attributes = [s \in Sessions |-> DefaultAttributes]
    /\ old = [s \in Sessions |-> EmptyOld]
    /\ records = [s \in Sessions |-> <<>>]
    /\ installed = FALSE
    /\ handed = [s \in Sessions |-> <<>>]
    /\ instances = {}
    /\ atexit_setup = [c \in Classes |-> IF c = "LogCapture" THEN Some(FALSE) ELSE Missing]
    /\ registered = <<>>
    /\ ucalls = [s \in Sessions |-> 0]
    /\ raised = NotRaised
    /\ warnings = <<>>
    /\ exited = FALSE
    /\ calls = [d \in Decorated |-> "idle"]
    /\ logCount = 0
    /\ cfgCount = 0
    /\ live = {}
    /\ lastOp = NoOp
    /\ pre = NoRegistry
    /\ callPre = NoCalls
    /\ callStart = [d \in Decorated |-> 0]
    /\ expected = <<>>
    /\ result = NoResult

\* LogCapture(names, install, level, propagate)
Construct(s, ns, inst, lv, pr) ==
    /\ ~exited
    /\ s \in Plain \ constructed
    /\ SetWorld(init(World, s, ns, inst, lv, pr, DefaultAttributes))
    /\ live' = IF inst THEN live \cup {s} ELSE live
    /\ lastOp' = IF inst THEN <<"install", s, "init">> ELSE NoOp
    /\ pre' = IF inst THEN Some(loggers) ELSE NoRegistry
    /\ callPre' = IF inst THEN NoCalls ELSE callPre
    /\ UNCHANGED <<exited, calls, logCount, callStart, expected, cfgCount>>

\* log_capture(*names, level, propagate): the session is made, not installed
LogCaptureDecorator(d, ns, lv, pr) ==
    /\ ~exited
    /\ d \in Decorated \ constructed
    /\ SetWorld(init(World, d, ns, FALSE, lv, pr, DefaultAttributes))
    /\ lastOp' = NoOp
    /\ pre' = NoRegistry
    /\ UNCHANGED <<exited, calls, logCount, live, callPre, callStart, expected, cfgCount>>

Install(s) ==
    /\ ~exited
    /\ s \in constructed
    /\ SetWorld(install(World, s))
    /\ live' = live \cup {s}
    /\ lastOp' = <<"install", s, "call">>
    /\ pre' = Some(loggers)
    /\ callPre' = NoCalls
    /\ UNCHANGED <<exited, calls, logCount, callStart, expected, cfgCount>>

Uninstall(s) ==
    /\ ~exited
    /\ s \in constructed
    /\ SetWorld(uninstall(World, s))
    /\ live' = live \ {s}
    /\ lastOp' = <<"uninstall", s, IF s \in instances THEN "active" ELSE "inactive">>
    /\ pre' = NoRegistry
    /\ callPre' = NoCalls
    /\ UNCHANGED <<exited, calls, logCount, callStart, expected, cfgCount>>

UninstallAll ==
    /\ ~exited
    /\ \E order \in Orders(instances) :
        /\ SetWorld(uninstall_all(World, order))
        /\ live' = live \ {s \in Sessions : uninstall_all(World, order).ucalls[s] > 0}
    /\ lastOp' = <<"uninstall_all", "none", "none">>
    /\ pre' = NoRegistry
    /\ callPre' = NoCalls
    /\ UNCHANGED <<exited, calls, logCount, callStart, expected, cfgCount>>

Clear(s) ==
    /\ ~exited
    /\ s \in constructed
    /\ records[s] # <<>>
    /\ SetWorld(clear(World, s))
    /\ lastOp' = <<"clear", s, "none">>
    /\ pre' = NoRegistry
    /\ UNCHANGED <<exited, calls, logCount, live, callPre, callStart, expected, cfgCount>>

\* logging.getLogger(name).log(levelno, msg): each record is a new object,
\* told apart by its message.
Log(name, levelno) ==
    /\ ~exited
    /\ logCount < MaxLogs
    /\ logCount' = logCount + 1
    /\ SetWorld(LoggerLog(World, name,
                          [name |-> name, levelno |-> levelno, msg |-> logCount + 1]))
    /\ lastOp' = NoOp
    /\ pre' = NoRegistry
    /\ UNCHANGED <<exited, calls, live, callPre, callStart, expected, cfgCount>>

\* Other code configures a logger: setLevel, addHandler, removeHandler,
\* disabled, propagate.
Configure(name, cfg) ==
    /\ ~exited
    /\ cfg # loggers[name]
    /\ cfgCount < MaxConfigure
    /\ cfgCount' = cfgCount + 1
    /\ loggers' = [loggers EXCEPT ![name] = cfg]
    /\ ucalls' = [s \in Sessions |-> 0]
    /\ raised' = NotRaised
    /\ lastOp' = NoOp
    /\ pre' = NoRegistry
    /\ callPre' = NoCalls
    /\ UNCHANGED <<constructed, names, level, propagate, attributes, old, records,
                   installed, handed, instances, atexit_setup, registered, warnings, exited, calls,
                   logCount, live, callStart, expected, result>>

\* addHandler(h), or removeHandler(h) when h is there; disabled set to the
\* other value (logging.config disables existing loggers).
Reconfigured(name) ==
    LET l == loggers[name] IN
    {[l EXCEPT !.handlers = IF AddHandler(@, OtherHandler) # @
                            THEN AddHandler(@, OtherHandler)
                            ELSE RemoveHandler(@, OtherHandler)],
     [l EXCEPT !.disabled = ~@]}

\* A call of a function wrapped by log_capture: wrap() calls install before
\* the body and uninstall after it, however the body ends.
DecoratedEnter(d) ==
    /\ ~exited
    /\ d \in constructed
    /\ calls[d] = "idle"
    /\ SetWorld(install(World, d))
    /\ calls' = [calls EXCEPT ![d] = "body"]
    /\ live' = live \cup {d}
    /\ lastOp' = <<"install", d, "wrap">>
    /\ pre' = Some(loggers)
    /\ callPre' = [NoCalls EXCEPT ![d] = Some(loggers)]
    /\ callStart' = [callStart EXCEPT ![d] = logCount]
    /\ UNCHANGED <<exited, logCount, expected, cfgCount>>

DecoratedExit(d, outcome) ==
    /\ ~exited
    /\ calls[d] = "body"
    /\ SetWorld(uninstall(World, d))
    /\ calls' = [calls EXCEPT ![d] = "idle"]
    /\ live' = live \ {d}
    /\ lastOp' = <<"uninstall", d, IF d \in instances THEN "active" ELSE "inactive">>
    /\ pre' = NoRegistry
    /\ callPre' = NoCalls
    /\ outcome \in {"return", "raise"}
    /\ UNCHANGED <<exited, logCount, callStart, expected, cfgCount>>

\* The process exits: the registered callbacks run, last registered first.
RECURSIVE RunAtexit(_, _)
RunAtexit(w, cbs) ==
    IF cbs = <<>> THEN w
    ELSE RunAtexit(atexit(w, cbs[Len(cbs)]), SubSeq(cbs, 1, Len(cbs) - 1))

Exit ==
    /\ ~exited
    /\ \A d \in Decorated : calls[d] = "idle"
    /\ exited' = TRUE
    /\ SetWorld(RunAtexit(World, registered))
    /\ lastOp' = NoOp
    /\ pre' = NoRegistry
    /\ callPre' = NoCalls
    /\ UNCHANGED <<calls, logCount, live, callStart, expected, cfgCount>>

Lifecycle ==
    \/ \E s \in Plain, ns \in NameTuples, inst \in BOOLEAN,
          lv \in PlainLevels, pr \in PropagateValues :
            Construct(s, ns, inst, lv, pr)
    \/ \E d \in Decorated, ns \in NameTuples,
          lv \in DecoratedLevels, pr \in DecoratedPropagateValues :
            LogCaptureDecorator(d, ns, lv, pr)
    \/ \E s \in Sessions : Install(s)
    \/ \E s \in Sessions : Uninstall(s)
    \/ UninstallAll
    \/ \E d \in Decorated : DecoratedEnter(d)
    \/ \E d \in Decorated, outcome \in {"return", "raise"} : DecoratedExit(d, outcome)
    \/ Exit

\* The sessions' life cycle, with other code configuring the loggers.
Next ==
    \/ Lifecycle
    \/ \E name \in Loggers : \E cfg \in Reconfigured(name) : Configure(name, cfg)

Spec == Init /\ [][Next]_vars

\* The sessions' life cycle, with records being logged.
NextCapture ==
    \/ Lifecycle
    \/ \E s \in Sessions : Clear(s)
    \/ \E name \in Loggers, levelno \in RecordLevels : Log(name, levelno)

SpecCapture == Init /\ [][NextCapture]_vars

\* ------------------------------------------------ a test checking records
\* The sequences over S of length at most n.
RECURSIVE SeqsUpTo(_, _)
SeqsUpTo(S, n) ==
    IF n = 0 THEN {<<>>}
    ELSE LET shorter == SeqsUpTo(S, n - 1)
         IN shorter \cup {Append(q, x) : q \in {p \in shorter : Len(p) = n - 1}, x \in S}

\* The records logged to "a" at WARNING, told apart by their messages.
MatchRecords == {[name |-> "a", levelno |-> 30, msg |-> m] : m \in {1, 2, 3}}
\* The attributes a LogCapture is made with: the default, one attribute, two
\* attributes of which a LogRecord lacks the second, and a function of the record.
AttributeFunction(fn) == [callable |-> TRUE, names |-> <<>>, fn |-> fn]
MatchAttributes == {DefaultAttributes, AttributeNames(<<"getMessage">>),
                    AttributeNames(<<"getMessage", "nosuch">>),
                    AttributeFunction("getMessage")}

\* The world before any LogCapture exists.
EmptyWorld ==
    [loggers |-> [n \in Loggers |->
                    [level |-> IF n = "root" THEN 30 ELSE 0,
                     handlers |-> <<>>, disabled |-> FALSE, propagate |-> TRUE]],
     constructed |-> {}, names |-> [s \in Sessions |-> <<>>],
     level |-> [s \in Sessions |-> 0],
     propagate |-> [s \in Sessions |-> None],
     attributes |-> [s \in Sessions |-> DefaultAttributes],
     old |-> [s \in Sessions |-> EmptyOld],
     records |-> [s \in Sessions |-> <<>>], installed |-> FALSE,
     handed |-> [s \in Sessions |-> <<>>], instances |-> {},
     atexit_setup |-> [c \in Classes |->
                         IF c = "LogCapture" THEN Some(FALSE) ELSE Missing],
     registered |-> <<>>, warnings |-> <<>>,
     ucalls |-> [s \in Sessions |-> 0], raised |-> NotRaised, result |-> NoResult]

\* s1 = LogCapture(('a',), attributes=attrs), installed, with recs captured.
MatchWorld(attrs, recs) ==
    [init(EmptyWorld, "s1", <<"a">>, TRUE, 1, None, attrs) EXCEPT !.records["s1"] = recs,
                                                                !.handed["s1"] = recs]

InitMatch ==
    \E attrs \in MatchAttributes, recs \in SeqsUpTo(MatchRecords, MaxLen) :
      LET w == MatchWorld(attrs, recs) IN
      /\ loggers = w.loggers
      /\ constructed = w.constructed
      /\ names = w.names
      /\ level = w.level
      /\ propagate = w.propagate
      /\ attributes = w.attributes
      /\ old = w.old
      /\ records = w.records
      /\ installed = w.installed
      /\ handed = w.handed
      /\ instances = w.instances
      /\ atexit_setup = w.atexit_setup
      /\ registered = w.registered
      /\ ucalls = w.ucalls
      /\ raised = w.raised
      /\ warnings = w.warnings
      /\ exited = FALSE
      /\ calls = [d \in Decorated |-> "idle"]
      /\ logCount = Len(recs)
      /\ cfgCount = 0
      /\ live = {"s1"}
      /\ lastOp = NoOp
      /\ pre = NoRegistry
      /\ callPre = NoCalls
      /\ callStart = [d \in Decorated |-> 0]
      /\ expected \in SeqsUpTo({ActualEntry(attrs, r) : r \in MatchRecords}, MaxExpected)
      /\ result = w.result

Unchecked == <<exited, calls, logCount, cfgCount, live, lastOp, pre, callPre,
               callStart, expected>>

\* s.check(*expected)
Check(s) ==
    /\ s \in constructed
    /\ SetWorld(check(World, s, expected))
    /\ UNCHANGED Unchecked

\* s.check_present(*expected, order_matters=order_matters)
CheckPresent(s, order_matters) ==
    /\ s \in constructed
    /\ SetWorld(check_present(World, s, expected, order_matters))
    /\ UNCHANGED Unchecked

NextMatch ==
    \/ \E s \in Sessions : Check(s)
    \/ \E s \in Sessions, order_matters \in BOOLEAN : CheckPresent(s, order_matters)

SpecMatch == InitMatch /\ [][NextMatch]_vars

\* ------------------------------------- two sessions, each installed once
\* s1 = LogCapture(ns1, install=False, propagate=pr) and d1, the session of
\* log_capture(*ns2), on the registry as it is at the start; every tuple of
\* names holds "a", so the two have a target in common.
SharedWorld(ns1, ns2, pr) ==
    init(init(EmptyWorld, "s1", ns1, FALSE, 1, pr, DefaultAttributes),
         "d1", ns2, FALSE, 10, None, DefaultAttributes)

InitShared ==
    \E ns1 \in NameTuples, ns2 \in NameTuples, pr \in PropagateValues :
      LET w == SharedWorld(ns1, ns2, pr) IN
      /\ loggers = w.loggers
      /\ constructed = w.constructed
      /\ names = w.names
      /\ level = w.level
      /\ propagate = w.propagate
      /\ attributes = w.attributes
      /\ old = w.old
      /\ records = w.records
      /\ installed = w.installed
      /\ handed = w.handed
      /\ instances = w.instances
      /\ atexit_setup = w.atexit_setup
      /\ registered = w.registered
      /\ ucalls = w.ucalls
      /\ raised = w.raised
      /\ warnings = w.warnings
      /\ exited = FALSE
      /\ calls = [d \in Decorated |-> "idle"]
      /\ logCount = 0
      /\ cfgCount = 0
      /\ live = {}
      /\ lastOp = NoOp
      /\ pre = NoRegistry
      /\ callPre = NoCalls
      /\ callStart = [d \in Decorated |-> 0]
      /\ expected = <<>>
      /\ result = w.result

\* s.install(), on a session that has not been installed before
InstallOnce(s) ==
    /\ old[s] = EmptyOld
    /\ Install(s)

\* s.uninstall(), on a session installed and not uninstalled since
UninstallOnce(s) ==
    /\ s \in live
    /\ Uninstall(s)

NextShared ==
    \/ \E s \in Sessions : InstallOnce(s)
    \/ \E s \in Sessions : UninstallOnce(s)
    \/ UninstallAll

SpecShared == InitShared /\ [][NextShared]_vars

\* The two sessions installed, uninstalled and cleared at will, with records
\* being logged.
NextEmit ==
    \/ \E s \in Sessions : Install(s)
    \/ \E s \in Sessions : Uninstall(s)
    \/ \E s \in Sessions : Clear(s)
    \/ \E name \in Loggers, levelno \in RecordLevels : Log(name, levelno)

SpecEmit == InitShared /\ [][NextEmit]_vars

\* ------------------------------------------------------------- properties
Targets(s) == {names[s][i] : i \in 1..Len(names[s])}

\* C1: install() followed at once by uninstall() leaves every target logger's
\* level, handlers, disabled and propagate as they were just before install(),
\* for any tuple of target names and any prior configuration.
C1_InstallUninstallRoundTrip ==
    [][\A s \in Sessions :
         (lastOp[1] = "install" /\ lastOp[2] = s
            /\ lastOp'[1] = "uninstall" /\ lastOp'[2] = s)
         => \A n \in Targets(s) : loggers'[n] = Value(pre)[n]]_vars

\* C2: uninstall() of a session that is not in the set of instances raises
\* nothing and changes neither the registry nor the set, whatever was done
\* to the loggers since the session left the set.
C2_UninstallIdempotent ==
    [][\A s \in Sessions :
         (lastOp'[1] = "uninstall" /\ lastOp'[2] = s /\ s \notin instances)
         => /\ raised' = NotRaised
            /\ loggers' = loggers
            /\ instances' = instances]_vars

\* A second uninstall() has just run on s1, which had been installed on "a" and
\* uninstalled, after other code disabled "a".
C2_Witness ==
    /\ lastOp = <<"uninstall", "s1", "inactive">>
    /\ old["s1"].disabled["a"] = Some(FALSE)
    /\ loggers["a"].disabled
    /\ cfgCount > 0

\* C3: right after install() every target logger has the session's level, the
\* session's handler as its only handler, disabled false, and propagate as
\* the session's override or, without one, as before; the other loggers are
\* as before.
C3_InstallPostcondition ==
    \A s \in Sessions :
      (lastOp[1] = "install" /\ lastOp[2] = s) =>
        \A n \in Loggers :
          IF n \in Targets(s)
          THEN /\ loggers[n].level = level[s]
               /\ loggers[n].handlers = <<s>>
               /\ loggers[n].disabled = FALSE
               /\ loggers[n].propagate =
                    IF propagate[s] # None THEN Value(propagate[s])
                    ELSE Value(pre)[n].propagate
          ELSE loggers[n] = Value(pre)[n]

\* s1, made without an override, has just been installed on "a" alone, which
\* had the handler of d1 (still installed) and another handler.
C3_Witness ==
    /\ lastOp[1] = "install" /\ lastOp[2] = "s1"
    /\ names["s1"] = <<"a">>
    /\ propagate["s1"] = None
    /\ "d1" \in instances
    /\ Value(pre)["a"].handlers = <<"d1", OtherHandler>>
    /\ loggers["root"] = Value(pre)["root"]

\* C4: a session is in the set of instances exactly when install() has been
\* called on it and uninstall() has not been called on it since.
C4_ActiveSet == instances = live

\* Both sessions were installed; d1 has been uninstalled and s1 has not.
C4_Witness ==
    /\ instances = {"s1"}
    /\ old["d1"].levels["a"] # Missing
    /\ lastOp[1] = "uninstall" /\ lastOp[2] = "d1" /\ lastOp[3] = "active"

\* C9: at process exit exactly one warning is issued when a session is still
\* installed, naming the sessions still installed, and none otherwise.
C9_OneLeakWarning ==
    exited =>
      IF instances # {}
      THEN warnings = <<{<<i, names[i]>> : i \in instances}>>
      ELSE warnings = <<>>

\* C10: uninstall_all() empties the set of instances, calls uninstall() once
\* on each session that was in it and on no other, and leaves the sessions
\* that were not in it as they were.
C10_UninstallAll ==
    [][lastOp'[1] = "uninstall_all" =>
         /\ instances' = {}
         /\ raised' = NotRaised
         /\ \A s \in Sessions :
              /\ ucalls'[s] = IF s \in instances THEN 1 ELSE 0
              /\ s \notin instances =>
                   /\ old'[s] = old[s]
                   /\ records'[s] = records[s]
                   /\ names'[s] = names[s]]_vars

\* uninstall_all() has just run with both sessions installed, and one stays
\* constructed but untouched in another run; here both were uninstalled.
C10_Witness ==
    /\ lastOp[1] = "uninstall_all"
    /\ ucalls = [s \in Sessions |-> 1]
    /\ instances = {}

\* C8: in a call of a function wrapped by log_capture the session is installed
\* and its buffer holds only records logged during the call; when the call
\* ends, by return or by raise, the session is out of the set of instances
\* and its target loggers are as they were before the call (the body having
\* done nothing but log and clear).
C8_ScopedCapture ==
    /\ [](\A d \in Decorated :
            (calls[d] = "body" /\ callPre[d] # NoRegistry) =>
              /\ d \in instances
              /\ \A i \in 1..Len(records[d]) : records[d][i].msg > callStart[d])
    /\ [][\A d \in Decorated :
            (calls[d] = "body" /\ calls'[d] = "idle") =>
              /\ d \notin instances'
              /\ callPre[d] # NoRegistry =>
                   \A n \in Targets(d) : loggers'[n] = Value(callPre[d])[n]]_vars

\* ---------------------------------------------------- properties of matching
\* exp occurs in act as a subsequence, gaps allowed: every way of skipping
\* or taking the first entry of act is tried.
RECURSIVE IsSubsequence(_, _)
IsSubsequence(exp, act) ==
    \/ exp = <<>>
    \/ /\ act # <<>>
       /\ \/ Head(exp) = Head(act) /\ IsSubsequence(Tail(exp), Tail(act))
          \/ IsSubsequence(exp, Tail(act))

Count(seq, x) == Cardinality({i \in 1..Len(seq) : seq[i] = x})
Range(seq) == {seq[i] : i \in 1..Len(seq)}
IsSubMultiset(exp, act) == \A x \in Range(exp) : Count(exp, x) <= Count(act, x)

\* The entries of seq at the indexes in keep, in order.
RECURSIVE Pick(_, _, _)
Pick(seq, keep, i) ==
    IF i > Len(seq) THEN <<>>
    ELSE (IF i \in keep THEN <<seq[i]>> ELSE <<>>) \o Pick(seq, keep, i + 1)

\* The indexes of seq holding one of the first Count(other, x) occurrences of
\* their entry x: the entries that pair off with entries of other.
Paired(seq, other) ==
    {i \in 1..Len(seq) : Count(SubSeq(seq, 1, i), seq[i]) <= Count(other, seq[i])}

\* C5: check_present with order_matters true returns exactly when the
\* expected rows occur in actual() as an ordered subsequence, gaps allowed,
\* and raises AssertionError otherwise.
C5_OrderedPresent ==
    (result.op = "check_present" /\ result.order_matters) =>
      IF IsSubsequence(result.expected, actual(World, result.s))
      THEN result.raised = NotRaised /\ raised = NotRaised
      ELSE result.raised = "AssertionError" /\ raised = "AssertionError"

\* Expected 1, 3 was found in the captured 1, 2, 3, 1: a gap, and a row left over.
C5_Witness ==
    /\ result.op = "check_present" /\ result.order_matters
    /\ attributes["s1"] = AttributeNames(<<"getMessage">>)
    /\ result.raised = NotRaised
    /\ result.expected = <<"1", "3">>
    /\ actual(World, "s1") = <<"1", "2", "3", "1">>

\* C6: check_present with order_matters false returns exactly when the
\* expected rows are a sub-multiset of actual(); otherwise it raises
\* AssertionError listing the rows of actual() that were expected, the
\* expected rows not found, and the other rows of actual(); the rows the
\* caller passed are unchanged.
C6_UnorderedPresent ==
    (result.op = "check_present" /\ ~result.order_matters) =>
      LET act == actual(World, result.s)
          exp == result.expected
      IN /\ exp = expected
         /\ IF IsSubMultiset(exp, act)
            THEN result.raised = NotRaised /\ result.report = <<>>
            ELSE /\ result.raised = "AssertionError"
                 /\ result.report = <<Pick(act, Paired(act, exp), 1),
                                      Pick(exp, (1..Len(exp)) \ Paired(exp, act), 1),
                                      Pick(act, (1..Len(act)) \ Paired(act, exp), 1)>>

\* Expected 1, 1, 3 against the captured 2, 1, 2: one 1 found, a 1 and the
\* 3 not found, both 2 left over.
C6_Witness ==
    /\ result.op = "check_present" /\ ~result.order_matters
    /\ attributes["s1"] = AttributeNames(<<"getMessage">>)
    /\ result.expected = <<"1", "1", "3">>
    /\ actual(World, "s1") = <<"2", "1", "2">>
    /\ result.report = << <<"1">>, <<"1", "3">>, <<"2", "2">> >>

\* C7: check returns exactly when actual() equals the expected rows, entry
\* by entry in order, and raises otherwise; it changes neither the buffer,
\* nor the registry, nor the set of instances.
C7_Check ==
    /\ [](result.op = "check" =>
            IF result.expected = actual(World, result.s)
            THEN result.raised = NotRaised
            ELSE result.raised = "AssertionError")
    /\ [][\A s \in Sessions :
            Check(s) => /\ records' = records
                        /\ loggers' = loggers
                        /\ instances' = instances]_vars

\* check raised on the expected rows in another order than captured.
C7_Witness ==
    /\ result.op = "check"
    /\ attributes["s1"] = AttributeNames(<<"getMessage">>)
    /\ result.raised = "AssertionError"
    /\ result.expected = <<"2", "1">>
    /\ actual(World, "s1") = <<"1", "2">>

\* ----------------------------------------------------- properties of capture
\* The row of a record under the default attributes: its logger's name, the
\* name of its level and its message as text.
DefaultRow(r) == <<r.name, LevelName(r.levelno), ToString(r.msg)>>

\* C11: actual() has one row for each record handed to emit since the buffer
\* was last emptied, in the order handed, the i-th row being the projection
\* of the i-th record; it is computed from the buffer as it is now.
C11_CapturePreserved ==
    \A s \in constructed :
      LET act == actual(World, s)
      IN /\ Len(act) = Len(handed[s])
         /\ \A i \in 1..Len(act) : act[i] = DefaultRow(handed[s][i])

\* s1, on "a" and on the root, was handed the first record twice and the
\* second once; d1 held the second record and has just been cleared.
C11_Witness ==
    /\ lastOp = <<"clear", "d1", "none">>
    /\ actual(World, "d1") = <<>>
    /\ Len(handed["s1"]) = 3
    /\ handed["s1"][1] = handed["s1"][2]
    /\ actual(World, "s1")[3] = <<"a", "DEBUG", "2">>

\* What getattr(record, a, None) resolves to, a method having been called.
Resolved(r, a) ==
    CASE a = "name" -> r.name
      [] a = "levelname" -> LevelName(r.levelno)
      [] a = "getMessage" -> ToString(r.msg)
      [] OTHER -> PyNone

\* C12: with one attribute name every row of actual() is the bare value; with
\* N > 1 names every row is an N-tuple in the order of the names; a name the
\* record lacks gives None at its position and a callable value is replaced by
\* the result of calling it; with a function as attributes every row is the
\* function's result on the record.
C12_ProjectionShape ==
    \A s \in constructed :
      LET attrs == attributes[s]
          act == actual(World, s)
      IN /\ Len(act) = Len(records[s])
         /\ \A i \in 1..Len(act) :
              LET r == records[s][i]
              IN IF attrs.callable
                 THEN attrs.fn = "getMessage" /\ act[i] = ToString(r.msg)
                 ELSE IF Len(attrs.names) = 1
                 THEN act[i] = Resolved(r, attrs.names[1])
                 ELSE /\ Len(act[i]) = Len(attrs.names)
                      /\ \A j \in 1..Len(attrs.names) :
                           act[i][j] = Resolved(r, attrs.names[j])

\* check() found actual() equal to two pairs, each the record's message and
\* None for the attribute the record lacks.
C12_Witness ==
    /\ attributes["s1"] = AttributeNames(<<"getMessage", "nosuch">>)
    /\ result.op = "check"
    /\ result.raised = NotRaised
    /\ result.expected = << <<"1", "None">>, <<"2", "None">> >>

\* ---------------------------------------------- properties of the snapshot
\* What old holds for the logger n, as a logger's configuration.
Saved(o, n) ==
    [level |-> Value(o.levels[n]), handlers |-> Value(o.handlers[n]),
     disabled |-> Value(o.disabled[n]), propagate |-> Value(o.progagate[n])]

\* C13: the snapshot is taken once. An install() of a session that is not in
\* the set of instances saves, for each target, the logger's configuration
\* from before the call; an install() of a session that is in the set leaves
\* the snapshot alone; and so does every other step while the session stays
\* in the set.
C13_SnapshotOnce ==
    [][\A s \in Sessions :
         IF lastOp'[1] = "install" /\ lastOp'[2] = s
         THEN IF s \in instances
              THEN old'[s] = old[s]
              ELSE \A i \in 1..Len(names'[s]) :
                     /\ old'[s].levels[names'[s][i]] # Missing
                     /\ Saved(old'[s], names'[s][i]) = loggers[names'[s][i]]
         ELSE (s \in instances /\ s \in instances') => old'[s] = old[s]]_vars

\* ------------------------------------------- properties of shared loggers
TargetsOf(S) == UNION {Targets(s) : s \in S}

\* C14: when two sessions with a target in common have each been installed
\* once and uninstalled once, in whatever order or by uninstall_all(), and the
\* set of instances is empty again, every target logger is as it was before
\* the first install (here: as at the start, nothing else changing the
\* registry), and no session is among its handlers.
C14_NoLeakedState ==
    (instances = {} /\ \A s \in Sessions : old[s] # EmptyOld) =>
      \A n \in TargetsOf(Sessions) :
        /\ loggers[n] = EmptyWorld.loggers[n]
        /\ \A i \in 1..Len(loggers[n].handlers) : loggers[n].handlers[i] \notin Sessions

\* --------------------------------------- properties of the ordered matcher
\* The matcher with a single-step backtrack: when an entry is not found from
\* the cursor and there is a prior match, the most recent match is dropped
\* and the entry is searched again from the earlier cursor; found there,
\* matching goes on; not found, matching stops.
RECURSIVE BacktrackLoop(_, _, _, _)
BacktrackLoop(exp, act, matched_indices, matched) ==
    IF exp = <<>>
    THEN [broke |-> FALSE, matched_indices |-> matched_indices, matched |-> matched]
    ELSE LET index == Index(act, Head(exp), Last(matched_indices))
             earlier == Pop(matched_indices)
             retry == Index(act, Head(exp), Last(earlier))
         IN IF index # -1
            THEN BacktrackLoop(Tail(exp), act, Append(matched_indices, index + 1),
                               Append(matched, Head(exp)))
            ELSE IF Len(matched_indices) = 1
            THEN [broke |-> TRUE, matched_indices |-> matched_indices, matched |-> matched]
            ELSE IF retry # -1
            THEN BacktrackLoop(Tail(exp), act, Append(earlier, retry + 1),
                               Append(Pop(matched), Head(exp)))
            ELSE [broke |-> TRUE, matched_indices |-> earlier, matched |-> Pop(matched)]

\* What that matcher ends with: nothing raised, or the report comparing
\* expected with the matches so far and the actual rows from the cursor on.
SingleStepBacktrack(exp, act) ==
    LET r == BacktrackLoop(exp, act, <<0>>, <<>>)
    IN IF ~r.broke THEN [raised |-> NotRaised, report |-> <<>>]
       ELSE [raised |-> "AssertionError",
             report |-> <<exp, r.matched \o SubSeq(act, Last(r.matched_indices) + 1,
                                                  Len(act))>>]

\* C15 as stated: order-sensitive check_present ends as the matcher with a
\* single-step backtrack does, in what it raises and in what it reports.
C15_SingleStepBacktrack ==
    (result.op = "check_present" /\ result.order_matters) =>
      LET claimed == SingleStepBacktrack(result.expected, actual(World, result.s))
      IN /\ result.raised = claimed.raised
         /\ result.report = claimed.report

\* The number of leading entries of exp that occur in act as a subsequence.
MatchedPrefix(exp, act) ==
    CHOOSE k \in 0..Len(exp) :
      /\ IsSubsequence(SubSeq(exp, 1, k), act)
      /\ \A j \in (k + 1)..Len(exp) : ~IsSubsequence(SubSeq(exp, 1, j), act)

\* The length of the shortest prefix of act that holds the first m entries
\* of exp as a subsequence.
LeftEnd(exp, act, m) ==
    CHOOSE p \in 0..Len(act) :
      /\ IsSubsequence(SubSeq(exp, 1, m), SubSeq(act, 1, p))
      /\ \A q \in 0..(p - 1) : ~IsSubsequence(SubSeq(exp, 1, m), SubSeq(act, 1, q))

\* C15 amended: when an expected row is not found from the cursor on,
\* matching stops there without searching again; a prior match, if any, is
\* dropped from the report only, which compares expected with the matches but
\* the last followed by the actual rows from the cursor before the last match.
C15_StopsWithoutRetry ==
    (result.op = "check_present" /\ result.order_matters) =>
      LET exp == result.expected
          act == actual(World, result.s)
          k == MatchedPrefix(exp, act)
          m == IF k > 0 THEN k - 1 ELSE 0
      IN IF k = Len(exp) THEN result.raised = NotRaised
         ELSE /\ result.raised = "AssertionError"
              /\ result.report =
                   <<exp, SubSeq(exp, 1, m)
                            \o SubSeq(act, LeftEnd(exp, act, m) + 1, Len(act))>>

\* Expected 1, 2, 3 against the captured 1, 3, 2: 3 is not found after 2, it
\* is not searched again from after 1 where it would be found, and the report
\* holds 1 followed by 3, 2.
C15_Witness ==
    /\ attributes["s1"] = AttributeNames(<<"getMessage">>)
    /\ result.op = "check_present" /\ result.order_matters
    /\ result.expected = <<"1", "2", "3">>
    /\ actual(World, "s1") = <<"1", "3", "2">>
    /\ result.raised = "AssertionError"
    /\ result.report = << <<"1", "2", "3">>, <<"1", "3", "2">> >>

\* C16 as stated, in its example: order-sensitive check_present of the
\* expected rows A, A, B fails against the captured A, A, A, B.
C16_KnownLimitation ==
    ( /\ attributes["s1"] = AttributeNames(<<"getMessage">>)
      /\ result.op = "check_present" /\ result.order_matters
      /\ result.expected = <<"1", "1", "2">>
      /\ actual(World, "s1") = <<"1", "1", "1", "2">> )
    => result.raised = "AssertionError"

\* C16 amended: order-sensitive check_present never fails when the expected
\* rows occur in actual() as an ordered subsequence, however many of the
\* rows are repeated.
C16_NeverFailsOnSubsequence ==
    ( /\ result.op = "check_present" /\ result.order_matters
      /\ IsSubsequence(result.expected, actual(World, result.s)) )
    => result.raised = NotRaised /\ result.report = <<>>

\* The expected rows A, A, B were found in the captured A, A, A, B.
C16_Witness ==
    /\ attributes["s1"] = AttributeNames(<<"getMessage">>)
    /\ result.op = "check_present" /\ result.order_matters
    /\ result.expected = <<"1", "1", "2">>
    /\ actual(World, "s1") = <<"1", "1", "1", "2">>
    /\ result.raised = NotRaised

\* ------------------------------------------ properties of the class state
\* C17: the exit callback is registered once, by the first install() of the
\* process, and never again, whatever the classes of the sessions installed.
C17_ExitHookOnce ==
    /\ Len(registered) <= 1
    /\ (\E s \in Sessions : old[s] # EmptyOld) => Len(registered) = 1

\* C18: a session's installed attribute is true exactly while the session is
\* in the set of instances.
C18_InstalledFlag ==
    \A s \in constructed : installed <=> s \in instances

\* ---------------------------------------- properties of the buffer's growth
\* C19: a session's buffer gains a record only while the session is in the
\* set of instances, so a record logged after its uninstall() is not added;
\* and uninstall() and uninstall_all() leave every buffer as it was.
C19_GrowthWhileInstalled ==
    [][\A s \in Sessions :
         /\ (logCount' # logCount /\ records'[s] # records[s]) => s \in instances
         /\ lastOp'[1] \in {"uninstall", "uninstall_all"} => records'[s] = records[s]]_vars

\* ------------------------------------- properties relating the three checks
\* C20: on the same buffer and the same expected rows, when check() has
\* returned, order-sensitive check_present returns, and when order-sensitive
\* check_present has returned, order-insensitive check_present returns.
C20_OrderedByStrength ==
    /\ (result.op = "check" /\ result.raised = NotRaised) =>
         check_present(World, result.s, result.expected, TRUE).raised = NotRaised
    /\ (result.op = "check_present" /\ result.order_matters
          /\ result.raised = NotRaised) =>
         check_present(World, result.s, result.expected, FALSE).raised = NotRaised

\* Order-sensitive check_present has returned on the expected rows 1, 1, 2
\* against the captured 1, 3, 1, 2, which check() rejects.
C20_Witness ==
    /\ attributes["s1"] = AttributeNames(<<"getMessage">>)
    /\ result.op = "check_present" /\ result.order_matters
    /\ result.raised = NotRaised
    /\ result.expected = <<"1", "1", "2">>
    /\ actual(World, "s1") = <<"1", "3", "1", "2">>
    /\ check(World, "s1", expected).raised = "AssertionError"
====
